---- MODULE Spec2Model ----
(***************************************************************************)
(* The GCRA decision engine of governor (src/governor/src/gcra.rs): the    *)
(* quota-to-parameter conversion, the single-cell and the all-or-nothing   *)
(* n-cell test, the negative outcome's wait-time helpers, and the state    *)
(* store's compare-and-commit loop the two tests run their decision        *)
(* closure in.  Nanos, the clock reference, the middleware and the state   *)
(* store are not part of gcra.rs; they are modelled from their description *)
(* in spec.md (sections 3, 4.1, 4.5, 4.6).                                 *)
(***************************************************************************)
EXTENDS Integers, Sequences, FiniteSets, TLC

(***************************************************************************)
(* Bounds of the model.                                                    *)
(***************************************************************************)
\* The largest representable Nanos value (u64::MAX in the program), scaled
\* down so that the saturation edge can be enumerated.
NanosMax == 63
\* Quotas of the concurrent specification.
MaxPeriod == 2
MaxBurst == 2
\* Batch sizes up to MaxN, arrival offsets 0..MaxT0 after `start`.
MaxN == 3
MaxT0 == 2
\* The limiter's reference instant is drawn from 0..MaxStart.
MaxStart == 1
\* Calls each concurrent tester issues.
MaxCalls == 2
\* The sequential specification: the quotas' bursts and the arrival offsets.
MaxSeqBurst == 3
MaxSeqT0 == 3
\* The capacity specification: quotas up to the saturation of tau, batch sizes.
MaxCapPeriod == 16
MaxCapBurst == 5
MaxCapN == 6
\* Arrival offsets at both ends of time: 0..MaxEdgeT0 and the same number of
\* offsets below the largest Nanos value.  The wait-time queries: instants
\* 0..MaxFrom and as many below the largest instant; jitter 0..MaxJitter.
MaxEdgeT0 == 1
MaxFrom == 3
MaxJitter == 2

Testers == {1, 2}
Keys == {1, 2}

(***************************************************************************)
(* Nanos: saturating unsigned durations (spec.md 3, 4.1).                  *)
(***************************************************************************)
Nanos == 0..NanosMax

Max(a, b) == IF a >= b THEN a ELSE b
Min(a, b) == IF a <= b THEN a ELSE b

\* Nanos + Nanos, saturating at the maximum.
Nanos_add(a, b) == IF a + b > NanosMax THEN NanosMax ELSE a + b
\* Nanos * u64, saturating at the maximum.
Nanos_mul(a, k) == IF a * k > NanosMax THEN NanosMax ELSE a * k
\* Nanos::saturating_sub, saturating at zero.
saturating_sub(a, b) == IF a < b THEN 0 ELSE a - b
\* Nanos / Nanos -> u64 (as_u64() / as_u64()).
Nanos_div(a, b) == a \div b

\* clock::Reference::duration_since: saturating difference of two instants.
duration_since(p, earlier) == saturating_sub(p, earlier)
\* clock::Reference + Nanos.
Reference_add(p, d) == Nanos_add(p, d)

\* Option<Nanos>: None is the absence of stored state.
None == -1
unwrap_or(opt, default) == IF opt = None THEN default ELSE opt

(***************************************************************************)
(* Quota and the GCRA parameters.                                          *)
(***************************************************************************)
Quota(replenish_1_per, max_burst) ==
    [replenish_1_per |-> replenish_1_per, max_burst |-> max_burst]

\* Gcra::new
Gcra_new(q) ==
    LET t == Max(q.replenish_1_per, 1)
        tau == Nanos_mul(t, q.max_burst - 1)
    IN  [t |-> t, tau |-> tau]

\* Quota::from_gcra_parameters
from_gcra_parameters(t, tau) == Quota(t, Nanos_div(tau, t) + 1)

(***************************************************************************)
(* Outcomes.                                                               *)
(***************************************************************************)
StateSnapshot_new(t, tau, time_of_measurement, tat) ==
    [t |-> t, tau |-> tau, time_of_measurement |-> time_of_measurement, tat |-> tat]

\* NotUntil::new
NotUntil_new(snapshot, start_) == [state |-> snapshot, start |-> start_]

\* NotUntil::earliest_possible
earliest_possible(nu) == Reference_add(nu.start, nu.state.tat)

\* Variant of wait_time_from with the subtraction reversed.
wait_time_from_reversed(nu, from) ==
    LET earliest == earliest_possible(nu)
    IN  duration_since(from, Min(earliest, from))

\* NotUntil::wait_time_from
wait_time_from(nu, from) ==
    LET earliest == earliest_possible(nu)
    IN  duration_since(earliest, Min(earliest, from))

\* Variant of earliest_possible_with_offset that takes the jitter off tat.
earliest_possible_with_offset_early(nu, jitter) ==
    LET tat == saturating_sub(nu.state.tat, jitter)
    IN  Reference_add(nu.start, tat)

\* NotUntil::earliest_possible_with_offset
earliest_possible_with_offset(nu, jitter) ==
    LET tat == Nanos_add(jitter, nu.state.tat)
    IN  Reference_add(nu.start, tat)

\* NotUntil::wait_time_with_offset
wait_time_with_offset(nu, from, jitter) ==
    LET earliest == earliest_possible_with_offset(nu, jitter)
    IN  duration_since(earliest, Min(earliest, from))

(***************************************************************************)
(* The middleware hooks (spec.md 4.6): allow builds the positive outcome   *)
(* from the snapshot, disallow the negative one, a NotUntil.               *)
(***************************************************************************)
MW_allow(key, snapshot) == [kind |-> "allowed", state |-> snapshot]
MW_disallow(key, snapshot, start_) ==
    [kind |-> "denied", nu |-> NotUntil_new(snapshot, start_)]

(***************************************************************************)
(* The decision closures handed to StateStore::measure_and_replace.  A     *)
(* closure returns Err(MW::disallow(..)) or Ok((MW::allow(..), next)):     *)
(* is_ok tells the variant, outcome is what the hook built, and next is    *)
(* the state an Ok carries (an Err carries none).                          *)
(***************************************************************************)
Decision(is_ok, outcome, next) ==
    [is_ok |-> is_ok, outcome |-> outcome, next |-> next]

\* Variants of the closure of Gcra::test_and_update, each with one slip.
\* The denial test is `<=` instead of `<`.
test_and_update_fn_le(g, start_, key, t0, tat_opt) ==
    LET tat == unwrap_or(tat_opt, t0)
        earliest_time == saturating_sub(tat, g.tau)
    IN  IF t0 <= earliest_time
        THEN Decision(FALSE,
                      MW_disallow(key,
                          StateSnapshot_new(g.t, g.tau, earliest_time, earliest_time),
                          start_),
                      None)
        ELSE LET next == Nanos_add(Max(tat, t0), g.t)
             IN  Decision(TRUE,
                          MW_allow(key, StateSnapshot_new(g.t, g.tau, t0, next)),
                          next)

\* next is min(tat, t0) + t instead of max(tat, t0) + t.
test_and_update_fn_min(g, start_, key, t0, tat_opt) ==
    LET tat == unwrap_or(tat_opt, t0)
        earliest_time == saturating_sub(tat, g.tau)
    IN  IF t0 < earliest_time
        THEN Decision(FALSE,
                      MW_disallow(key,
                          StateSnapshot_new(g.t, g.tau, earliest_time, earliest_time),
                          start_),
                      None)
        ELSE LET next == Nanos_add(Min(tat, t0), g.t)
             IN  Decision(TRUE,
                          MW_allow(key, StateSnapshot_new(g.t, g.tau, t0, next)),
                          next)

\* next is max(tat, t0): the cell's weight t is not added.
test_and_update_fn_no_advance(g, start_, key, t0, tat_opt) ==
    LET tat == unwrap_or(tat_opt, t0)
        earliest_time == saturating_sub(tat, g.tau)
    IN  IF t0 < earliest_time
        THEN Decision(FALSE,
                      MW_disallow(key,
                          StateSnapshot_new(g.t, g.tau, earliest_time, earliest_time),
                          start_),
                      None)
        ELSE LET next == Max(tat, t0)
             IN  Decision(TRUE,
                          MW_allow(key, StateSnapshot_new(g.t, g.tau, t0, next)),
                          next)

\* A denial is returned as Ok((disallow outcome, earliest_time)): the store
\* commits earliest_time.
test_and_update_fn_commit_deny(g, start_, key, t0, tat_opt) ==
    LET tat == unwrap_or(tat_opt, t0)
        earliest_time == saturating_sub(tat, g.tau)
    IN  IF t0 < earliest_time
        THEN Decision(TRUE,
                      MW_disallow(key,
                          StateSnapshot_new(g.t, g.tau, earliest_time, earliest_time),
                          start_),
                      earliest_time)
        ELSE LET next == Nanos_add(Max(tat, t0), g.t)
             IN  Decision(TRUE,
                          MW_allow(key, StateSnapshot_new(g.t, g.tau, t0, next)),
                          next)

\* A denial is returned as Ok((disallow outcome, tat + t)): the denied cell
\* is charged to the bucket.
test_and_update_fn_charge_deny(g, start_, key, t0, tat_opt) ==
    LET tat == unwrap_or(tat_opt, t0)
        earliest_time == saturating_sub(tat, g.tau)
    IN  IF t0 < earliest_time
        THEN Decision(TRUE,
                      MW_disallow(key,
                          StateSnapshot_new(g.t, g.tau, earliest_time, earliest_time),
                          start_),
                      Nanos_add(tat, g.t))
        ELSE LET next == Nanos_add(Max(tat, t0), g.t)
             IN  Decision(TRUE,
                          MW_allow(key, StateSnapshot_new(g.t, g.tau, t0, next)),
                          next)

\* The snapshot of a denial carries tat instead of earliest_time.
test_and_update_fn_report_tat(g, start_, key, t0, tat_opt) ==
    LET tat == unwrap_or(tat_opt, t0)
        earliest_time == saturating_sub(tat, g.tau)
    IN  IF t0 < earliest_time
        THEN Decision(FALSE,
                      MW_disallow(key, StateSnapshot_new(g.t, g.tau, tat, tat), start_),
                      None)
        ELSE LET next == Nanos_add(Max(tat, t0), g.t)
             IN  Decision(TRUE,
                          MW_allow(key, StateSnapshot_new(g.t, g.tau, t0, next)),
                          next)

\* The closure of Gcra::test_and_update.
test_and_update_fn(g, start_, key, t0, tat_opt) ==
    LET tau == g.tau
        t == g.t
        tat == unwrap_or(tat_opt, t0)
        earliest_time == saturating_sub(tat, tau)
    IN  IF t0 < earliest_time
        THEN Decision(FALSE,
                      MW_disallow(key,
                          StateSnapshot_new(g.t, g.tau, earliest_time, earliest_time),
                          start_),
                      None)
        ELSE LET next == Nanos_add(Max(tat, t0), t)
             IN  Decision(TRUE,
                          MW_allow(key, StateSnapshot_new(g.t, g.tau, t0, next)),
                          next)

\* additional_weight of Gcra::test_n_all_and_update
additional_weight(g, n) == Nanos_mul(g.t, n - 1)

\* The capacity check compares with the whole burst capacity t + tau.
insufficient_capacity_total(g, n) == additional_weight(g, n) > Nanos_add(g.tau, g.t)

\* The capacity check of Gcra::test_n_all_and_update.
insufficient_capacity(g, n) == additional_weight(g, n) > g.tau

\* The error the capacity check returns, with the value it carries.
InsufficientCapacity(g) ==
    [kind |-> "insufficient", value |-> 1 + Nanos_div(g.tau, g.t)]

\* Variant of the closure of Gcra::test_n_all_and_update: an allowed batch
\* advances the state by one cell's weight only.
test_n_all_and_update_fn_one_cell(g, start_, key, n, t0, tat_opt) ==
    LET tat == unwrap_or(tat_opt, t0)
        earliest_time ==
            saturating_sub(Nanos_add(tat, additional_weight(g, n)), g.tau)
    IN  IF t0 < earliest_time
        THEN Decision(FALSE,
                      MW_disallow(key,
                          StateSnapshot_new(g.t, g.tau, earliest_time, earliest_time),
                          start_),
                      None)
        ELSE LET next == Nanos_add(Max(tat, t0), g.t)
             IN  Decision(TRUE,
                          MW_allow(key, StateSnapshot_new(g.t, g.tau, t0, next)),
                          next)

\* Variant of the closure of Gcra::test_n_all_and_update: the batch is
\* tested as one cell, its additional weight left out of earliest_time.
test_n_all_and_update_fn_no_weight(g, start_, key, n, t0, tat_opt) ==
    LET tat == unwrap_or(tat_opt, t0)
        earliest_time == saturating_sub(tat, g.tau)
    IN  IF t0 < earliest_time
        THEN Decision(FALSE,
                      MW_disallow(key,
                          StateSnapshot_new(g.t, g.tau, earliest_time, earliest_time),
                          start_),
                      None)
        ELSE LET next == Nanos_add(Nanos_add(Max(tat, t0), g.t), additional_weight(g, n))
             IN  Decision(TRUE,
                          MW_allow(key, StateSnapshot_new(g.t, g.tau, t0, next)),
                          next)

\* The closure of Gcra::test_n_all_and_update.
test_n_all_and_update_fn(g, start_, key, n, t0, tat_opt) ==
    LET tau == g.tau
        t == g.t
        tat == unwrap_or(tat_opt, t0)
        earliest_time ==
            saturating_sub(Nanos_add(tat, additional_weight(g, n)), tau)
    IN  IF t0 < earliest_time
        THEN Decision(FALSE,
                      MW_disallow(key,
                          StateSnapshot_new(g.t, g.tau, earliest_time, earliest_time),
                          start_),
                      None)
        ELSE LET next == Nanos_add(Nanos_add(Max(tat, t0), t), additional_weight(g, n))
             IN  Decision(TRUE,
                          MW_allow(key, StateSnapshot_new(g.t, g.tau, t0, next)),
                          next)

\* A call: the operation, its key, its batch size (1 for a single cell) and
\* its arrival time as an offset from start (t0.duration_since(start)).
Call(op, key, n, t0) == [op |-> op, key |-> key, n |-> n, t0 |-> t0]
NoCall == Call("none", 0, 0, 0)

(***************************************************************************)
(* State.                                                                  *)
(***************************************************************************)
VARIABLES
    quota,      \* the limiter's Quota
    gcra,       \* Gcra::new(quota)
    start,      \* the limiter's reference instant
    state,      \* the state store: key -> Option<Nanos> (the stored tat)
    pc,         \* tester -> "idle" | "measure" | "commit"
    call,       \* tester -> the call it is in (or returned from last)
    prev,       \* tester -> the stored value its closure last ran on
    decision,   \* tester -> the closure's last result
    ret,        \* tester -> what its last call returned
    calls,      \* tester -> calls begun so far
    mr,         \* tester -> measure_and_replace invocations of its current call
    hooks,      \* tester -> allow / disallow invocations of its current call
    commits,    \* key -> the commits to its state, in order
    hist,       \* the sequential caller's last completed call (or none)
    track,      \* what the sequential caller's earlier calls were
    shadow,     \* the store of the same call sequence without its extra tests
    shadow_ret, \* what the last call returned against shadow
    probe       \* the last query of a denial's wait-time helpers (or none)

vars == <<quota, gcra, start, state, pc, call, prev, decision, ret, calls, mr,
          hooks, commits, hist, track, shadow, shadow_ret, probe>>

\* Variant of update_fn whose closure is run on the state of key 1, whatever
\* the key of the call.
update_fn_one_slot(g, start_, c, tat_opt) ==
    IF c.op = "test_and_update"
    THEN test_and_update_fn(g, start_, c.key, c.t0, state[1])
    ELSE test_n_all_and_update_fn(g, start_, c.key, c.n, c.t0, state[1])

\* The closure a call hands to the store.
update_fn(g, start_, c, tat_opt) ==
    IF c.op = "test_and_update"
    THEN test_and_update_fn(g, start_, c.key, c.t0, tat_opt)
    ELSE test_n_all_and_update_fn(g, start_, c.key, c.n, c.t0, tat_opt)

NoOutcome == [kind |-> "none"]
NoDenial == [op |-> "none", n |-> 0, ep |-> 0]
NoDecision == Decision(FALSE, NoOutcome, None)
NoProbe == [op |-> "none"]

Quotas == {Quota(p, b) : p \in 1..MaxPeriod, b \in 1..MaxBurst}

InitCommon(q, s) ==
    /\ quota = q
    /\ gcra = Gcra_new(q)
    /\ start = s
    /\ state = [k \in Keys |-> None]
    /\ pc = [i \in Testers |-> "idle"]
    /\ call = [i \in Testers |-> NoCall]
    /\ prev = [i \in Testers |-> None]
    /\ decision = [i \in Testers |-> NoDecision]
    /\ ret = [i \in Testers |-> NoOutcome]
    /\ calls = [i \in Testers |-> 0]
    /\ mr = [i \in Testers |-> 0]
    /\ hooks = [i \in Testers |-> [allow |-> 0, disallow |-> 0]]
    /\ commits = [k \in Keys |-> <<>>]
    /\ hist = <<>>
    /\ track = [fresh |-> TRUE, run |-> 0, run_t0 |-> 0, only_cells |-> TRUE,
                max_allowed |-> None, extra_seen |-> FALSE, denied |-> NoDenial]
    /\ shadow = [k \in Keys |-> None]
    /\ shadow_ret = NoOutcome
    /\ probe = NoProbe

Init == \E q \in Quotas : InitCommon(q, MaxStart)

(***************************************************************************)
(* Bookkeeping of a decision at its linearization point (the read the      *)
(* denial was computed from, or the successful commit).                    *)
(***************************************************************************)
CountHook(h, d) ==
    IF d.outcome.kind = "allowed"
    THEN [h EXCEPT !.allow = @ + 1]
    ELSE [h EXCEPT !.disallow = @ + 1]

\* A commit: the call, the value its closure ran on, the value it wrote.
Admit(c, read, wrote) ==
    commits' = [commits EXCEPT ![c.key] =
                  Append(@, [call |-> c, read |-> read, wrote |-> wrote])]

(***************************************************************************)
(* StateStore::measure_and_replace without interference: the closure runs  *)
(* once on the stored value and an Ok's state is committed; an Err commits *)
(* nothing.                                                                *)
(***************************************************************************)
measure_and_replace(st, key, d) ==
    IF d.is_ok THEN [st EXCEPT ![key] = d.next] ELSE st

(***************************************************************************)
(* Concurrent testers.  A call enters measure_and_replace, which reads the *)
(* key's state and runs the closure on it (one step: the closure is local  *)
(* computation on the value read), then on Ok tries to commit with a       *)
(* compare-and-swap against the value read; a lost race re-runs the        *)
(* closure on the value observed.                                          *)
(***************************************************************************)
\* Gcra::test_and_update up to the call of measure_and_replace.
test_and_update(i, key, t0P) ==
    /\ pc[i] = "idle"
    /\ calls[i] < MaxCalls
    /\ calls' = [calls EXCEPT ![i] = @ + 1]
    /\ call' = [call EXCEPT ![i] =
                  Call("test_and_update", key, 1, duration_since(t0P, start))]
    /\ pc' = [pc EXCEPT ![i] = "measure"]
    /\ mr' = [mr EXCEPT ![i] = 1]
    /\ hooks' = [hooks EXCEPT ![i] = [allow |-> 0, disallow |-> 0]]
    /\ ret' = [ret EXCEPT ![i] = NoOutcome]
    /\ UNCHANGED <<quota, gcra, start, state, prev, decision, commits, hist,
                   track, shadow, shadow_ret, probe>>

\* Gcra::test_n_all_and_update up to the call of measure_and_replace, or to
\* the return of InsufficientCapacity.
test_n_all_and_update(i, key, n, t0P) ==
    /\ pc[i] = "idle"
    /\ calls[i] < MaxCalls
    /\ calls' = [calls EXCEPT ![i] = @ + 1]
    /\ call' = [call EXCEPT ![i] =
                  Call("test_n_all_and_update", key, n, duration_since(t0P, start))]
    /\ hooks' = [hooks EXCEPT ![i] = [allow |-> 0, disallow |-> 0]]
    /\ IF insufficient_capacity(gcra, n)
       THEN /\ ret' = [ret EXCEPT ![i] = InsufficientCapacity(gcra)]
            /\ mr' = [mr EXCEPT ![i] = 0]
            /\ pc' = pc
       ELSE /\ ret' = [ret EXCEPT ![i] = NoOutcome]
            /\ mr' = [mr EXCEPT ![i] = 1]
            /\ pc' = [pc EXCEPT ![i] = "measure"]
    /\ UNCHANGED <<quota, gcra, start, state, prev, decision, commits, hist,
                   track, shadow, shadow_ret, probe>>

\* Variant of RunClosure for a loop that, after a lost race, tries the same
\* compare-and-commit again without running the closure on the value
\* observed.
RunClosure_spin(i, seen) ==
    LET d == update_fn(gcra, start, call[i], seen)
    IN  IF pc[i] = "commit"
        THEN UNCHANGED <<prev, decision, hooks, pc, ret>>
        ELSE /\ prev' = [prev EXCEPT ![i] = seen]
             /\ decision' = [decision EXCEPT ![i] = d]
             /\ hooks' = [hooks EXCEPT ![i] = CountHook(@, d)]
             /\ IF d.is_ok
                THEN /\ pc' = [pc EXCEPT ![i] = "commit"]
                     /\ ret' = ret
                ELSE /\ pc' = [pc EXCEPT ![i] = "idle"]
                     /\ ret' = [ret EXCEPT ![i] = d.outcome]

\* The closure ran on `seen` for tester i: an Err returns at once, committing
\* nothing; an Ok goes on to the commit.
RunClosure(i, seen) ==
    LET d == update_fn(gcra, start, call[i], seen)
    IN  /\ prev' = [prev EXCEPT ![i] = seen]
        /\ decision' = [decision EXCEPT ![i] = d]
        /\ hooks' = [hooks EXCEPT ![i] = CountHook(@, d)]
        /\ IF d.is_ok
           THEN /\ pc' = [pc EXCEPT ![i] = "commit"]
                /\ ret' = ret
           ELSE /\ pc' = [pc EXCEPT ![i] = "idle"]
                /\ ret' = [ret EXCEPT ![i] = d.outcome]

\* measure_and_replace: the first read of the key's state.
measure_and_replace_load(i) ==
    /\ pc[i] = "measure"
    /\ RunClosure(i, state[call[i].key])
    /\ UNCHANGED <<quota, gcra, start, state, call, calls, mr, commits, hist,
                   track, shadow, shadow_ret, probe>>

\* measure_and_replace: the compare-and-commit succeeds.
measure_and_replace_commit(i) ==
    /\ pc[i] = "commit"
    /\ state[call[i].key] = prev[i]
    /\ state' = measure_and_replace(state, call[i].key, decision[i])
    /\ pc' = [pc EXCEPT ![i] = "idle"]
    /\ ret' = [ret EXCEPT ![i] = decision[i].outcome]
    /\ prev' = [prev EXCEPT ![i] = None]
    /\ decision' = [decision EXCEPT ![i] = NoDecision]
    /\ Admit(call[i], prev[i], decision[i].next)
    /\ UNCHANGED <<quota, gcra, start, call, calls, mr, hooks, hist,
                   track, shadow, shadow_ret, probe>>

\* measure_and_replace: the compare-and-commit loses the race; the closure
\* runs again on the value observed.
measure_and_replace_retry(i) ==
    /\ pc[i] = "commit"
    /\ state[call[i].key] # prev[i]
    /\ RunClosure(i, state[call[i].key])
    /\ UNCHANGED <<quota, gcra, start, state, call, calls, mr, commits, hist,
                   track, shadow, shadow_ret, probe>>

Next ==
    \/ \E i \in Testers, k \in Keys, a \in 0..MaxT0 :
          test_and_update(i, k, Reference_add(start, a))
    \/ \E i \in Testers, k \in Keys, n \in 2..MaxN, a \in 0..MaxT0 :
          test_n_all_and_update(i, k, n, Reference_add(start, a))
    \/ \E i \in Testers : measure_and_replace_load(i)
    \/ \E i \in Testers : measure_and_replace_commit(i)
    \/ \E i \in Testers : measure_and_replace_retry(i)

Spec == Init /\ [][Next]_vars

(***************************************************************************)
(* One caller, one call at a time: each action is a whole call of          *)
(* test_and_update or test_n_all_and_update.  The same calls also run      *)
(* against `shadow`, except the calls marked extra, which the caller makes *)
(* only against `state` and only when they are denied there.               *)
(***************************************************************************)
SeqKeys == {1}
SeqQuotas == {Quota(p, b) : p \in 1..MaxPeriod, b \in 1..MaxSeqBurst}

SeqInit == \E q \in SeqQuotas : InitCommon(q, MaxStart)

\* What is remembered of the calls made so far, after the call c with the
\* given outcome: run counts the calls if all of them were single-cell tests
\* with one arrival time run_t0 (0 otherwise; counting stops above the
\* burst), only_cells tells that all were single-cell tests, max_allowed is
\* the latest arrival time of an allowed call, extra_seen tells that an extra
\* call was made, and denied holds the call and its earliest_possible() if it
\* was denied.
Tracked(c, outcome, extra) ==
    LET cell == c.op = "test_and_update"
    IN  [fresh |-> FALSE,
         run |-> IF track.fresh
                 THEN (IF cell THEN 1 ELSE 0)
                 ELSE IF track.run > 0 /\ cell /\ c.t0 = track.run_t0
                      THEN Min(track.run + 1, quota.max_burst + 2)
                      ELSE 0,
         run_t0 |-> IF track.fresh THEN c.t0 ELSE track.run_t0,
         only_cells |-> track.only_cells /\ cell,
         max_allowed |-> IF outcome.kind = "allowed"
                         THEN Max(track.max_allowed, c.t0)
                         ELSE track.max_allowed,
         extra_seen |-> track.extra_seen \/ extra,
         denied |-> IF outcome.kind = "denied"
                    THEN [op |-> c.op, n |-> c.n, ep |-> earliest_possible(outcome.nu)]
                    ELSE NoDenial]

\* A completed call: its arguments, the key's stored value before and after,
\* what it returned; whether it is an extra call; its position in a run of
\* same-instant single-cell tests from the fresh key (0: not in one);
\* whether it is a single-cell test, after single-cell tests only, arriving
\* at least t after every call allowed before it; and whether it repeats the
\* call before it, which was denied, at that denial's earliest_possible().
Entry(c, pre, post, outcome, extra) ==
    [call |-> c, pre |-> pre, post |-> post, ret |-> outcome, extra |-> extra,
     burst_pos |-> Tracked(c, outcome, extra).run,
     paced |-> /\ Tracked(c, outcome, extra).only_cells
               /\ (track.max_allowed # None => c.t0 >= track.max_allowed + gcra.t),
     retry |-> /\ track.denied.op = c.op
               /\ track.denied.n = c.n
               /\ track.denied.ep = Reference_add(start, c.t0)]

\* The call c, decided by d on the store (InsufficientCapacity: no decision).
SeqReturn(c, reached, d, outcome, extra) ==
    LET sd == update_fn(gcra, start, c, shadow[c.key])
        post == IF reached THEN measure_and_replace(state, c.key, d) ELSE state
        e == Entry(c, state[c.key], post[c.key], outcome, extra)
    IN  /\ extra => outcome.kind = "denied"
        /\ state' = post
        /\ call' = [call EXCEPT ![1] = c]
        /\ ret' = [ret EXCEPT ![1] = outcome]
        /\ mr' = [mr EXCEPT ![1] = IF reached THEN 1 ELSE 0]
        /\ hooks' = [hooks EXCEPT ![1] =
                       IF reached THEN CountHook([allow |-> 0, disallow |-> 0], d)
                       ELSE [allow |-> 0, disallow |-> 0]]
        /\ hist' = <<e>>
        /\ track' = Tracked(c, outcome, extra)
        /\ IF extra
           THEN UNCHANGED <<shadow, shadow_ret>>
           ELSE /\ shadow' = IF reached THEN measure_and_replace(shadow, c.key, sd)
                             ELSE shadow
                /\ shadow_ret' = IF reached THEN sd.outcome ELSE outcome
        /\ UNCHANGED <<quota, gcra, start, pc, prev, decision, calls, commits,
                       probe>>

\* A whole call of Gcra::test_and_update.
seq_test_and_update(key, t0P, extra) ==
    LET c == Call("test_and_update", key, 1, duration_since(t0P, start))
        d == update_fn(gcra, start, c, state[key])
    IN  SeqReturn(c, TRUE, d, d.outcome, extra)

\* A whole call of Gcra::test_n_all_and_update.
seq_test_n_all_and_update(key, n, t0P, extra) ==
    LET c == Call("test_n_all_and_update", key, n, duration_since(t0P, start))
        d == update_fn(gcra, start, c, state[key])
    IN  IF insufficient_capacity(gcra, n)
        THEN SeqReturn(c, FALSE, NoDecision, InsufficientCapacity(gcra), extra)
        ELSE SeqReturn(c, TRUE, d, d.outcome, extra)

SeqNext ==
    \/ \E k \in SeqKeys, a \in 0..MaxSeqT0, x \in BOOLEAN :
          seq_test_and_update(k, Reference_add(start, a), x)
    \/ \E k \in SeqKeys, n \in 1..MaxN, a \in 0..MaxSeqT0, x \in BOOLEAN :
          seq_test_n_all_and_update(k, n, Reference_add(start, a), x)

SeqSpec == SeqInit /\ [][SeqNext]_vars

(***************************************************************************)
(* Properties.                                                             *)
(***************************************************************************)
Last(h) == h[Len(h)]

\* C1 (burst admission): on a key with no stored state, the first max_burst
\* calls of test_and_update with one arrival time t0 are all allowed, and the
\* next call at the same t0 is denied with earliest_possible() = t0 + t.
C1_BurstAdmission ==
    \A j \in DOMAIN hist :
        LET m == hist[j].burst_pos
        IN  /\ (1 <= m /\ m <= quota.max_burst) => hist[j].ret.kind = "allowed"
            /\ m = quota.max_burst + 1 =>
                  /\ hist[j].ret.kind = "denied"
                  /\ earliest_possible(hist[j].ret.nu)
                        = (start + hist[j].call.t0) + gcra.t

\* The denied test after a burst of several same-instant tests.
C1_Witness ==
    /\ quota.max_burst >= 2
    /\ hist # <<>>
    /\ Last(hist).burst_pos = quota.max_burst + 1
    /\ Last(hist).ret.kind = "denied"

\* The number of allowed tests on key k with arrival offsets in a..b.
AllowedIn(k, a, b) ==
    Cardinality({j \in DOMAIN commits[k] : commits[k][j].call.t0 \in a..b})

\* C2 (rate bound under concurrency): under every interleaving of the
\* testers' steps, the allowed tests on a key with one and the same arrival
\* time never exceed max_burst, and those with arrival times within an
\* interval of length d never exceed max_burst + d / t.
C2_RateBound ==
    \A k \in Keys : \A a \in 0..MaxT0 : \A b \in a..MaxT0 :
        AllowedIn(k, a, b) <= quota.max_burst + ((b - a) \div gcra.t)

\* A tester whose closure first allowed lost the race and was then denied,
\* the burst at its arrival time having been used up by the others.
C2_Witness ==
    \E i \in Testers :
        /\ quota.max_burst = 2
        /\ ret[i].kind = "denied"
        /\ hooks[i].allow >= 1
        /\ AllowedIn(call[i].key, call[i].t0, call[i].t0) = quota.max_burst

RECURSIVE CellsUpTo(_, _)
CellsUpTo(k, m) == IF m = 0 THEN 0 ELSE commits[k][m].call.n + CellsUpTo(k, m - 1)
\* The cells admitted on key k.
Cells(k) == CellsUpTo(k, Len(commits[k]))

\* C3 (per-key linearizability with retry): no two commits on a key were
\* computed from the same pre-update tat; every committed tat is the
\* closure's result for the tat committed immediately before it; and the
\* stored tat is at least the first test's arrival time plus t for every
\* cell admitted since.
C3_Linearizable ==
    \A k \in Keys :
        /\ \A j \in DOMAIN commits[k] :
              /\ commits[k][j].read = (IF j = 1 THEN None ELSE commits[k][j - 1].wrote)
              /\ commits[k][j].wrote
                    = update_fn(gcra, start, commits[k][j].call, commits[k][j].read).next
              /\ \A h \in DOMAIN commits[k] :
                    h # j => commits[k][h].read # commits[k][j].read
        /\ commits[k] # <<>> =>
              /\ state[k] = Last(commits[k]).wrote
              /\ state[k] >= commits[k][1].call.t0 + Cells(k) * gcra.t
        /\ commits[k] = <<>> => state[k] = None

\* A call that lost the race, re-ran its closure and then committed.
C3_Witness ==
    \E i \in Testers :
        /\ ret[i].kind = "allowed"
        /\ hooks[i].allow + hooks[i].disallow >= 2
        /\ Len(commits[call[i].key]) >= 2
        /\ Last(commits[call[i].key]).call = call[i]

\* C4 (no consumption on denial): the call sequence with its extra denied
\* tests and the same sequence without them leave the same stored tat, and
\* every call made in both returns the same outcome in both.
C4_NoConsumptionOnDenial ==
    /\ state = shadow
    /\ (hist # <<>> /\ ~Last(hist).extra) => ret[1] = shadow_ret

\* A conforming test after an extra denied one.
C4_Witness ==
    /\ hist # <<>>
    /\ track.extra_seen
    /\ ~Last(hist).extra
    /\ Last(hist).ret.kind = "allowed"
    /\ Last(hist).pre # None

\* The call of entry e was a denied test_and_update.
DeniedCell(e) == e.call.op = "test_and_update" /\ e.ret.kind = "denied"

\* C5 as claimed (commit on denial): after a denied test_and_update the
\* key's stored tat equals earliest_time = saturating_sub(tat, tau).
C5_CommitOnDenial ==
    \A j \in DOMAIN hist :
        DeniedCell(hist[j]) => hist[j].post = hist[j].ret.nu.state.tat

\* C5, amended: a denied test_and_update commits nothing: the key's stored
\* tat after the call is the stored tat before it, and earliest_time =
\* saturating_sub(tat, tau) > t0 is carried only by the outcome's snapshot,
\* as both its fields.
C5_DenialCommitsNothing ==
    \A j \in DOMAIN hist :
        DeniedCell(hist[j]) =>
            /\ hist[j].pre # None
            /\ hist[j].post = hist[j].pre
            /\ hist[j].ret.nu.state.tat = saturating_sub(hist[j].pre, gcra.tau)
            /\ hist[j].ret.nu.state.time_of_measurement = hist[j].ret.nu.state.tat
            /\ hist[j].call.t0 < hist[j].ret.nu.state.tat

\* A denial whose earliest_time differs from the stored tat.
C5_Witness ==
    /\ hist # <<>>
    /\ DeniedCell(Last(hist))
    /\ gcra.tau > 0
    /\ Last(hist).ret.nu.state.tat < Last(hist).post

\* The call of entry e was a test_n_all_and_update that reached the store.
BatchDecided(e) ==
    e.call.op = "test_n_all_and_update" /\ e.ret.kind \in {"allowed", "denied"}

\* C6 (all-or-nothing batch): a test_n_all_and_update with t*(n-1) <= tau
\* either is allowed and the stored tat becomes max(tat, t0) + n*t, or is
\* denied and the stored tat is what it was before the call.
C6_AllOrNothing ==
    \A j \in DOMAIN hist :
        LET e == hist[j]
            tat == unwrap_or(e.pre, e.call.t0)
        IN  (e.call.op = "test_n_all_and_update"
                /\ gcra.t * (e.call.n - 1) <= gcra.tau) =>
               \/ /\ e.ret.kind = "allowed"
                  /\ e.post = Max(tat, e.call.t0) + e.call.n * gcra.t
               \/ /\ e.ret.kind = "denied"
                  /\ e.post = e.pre

\* A batch of several cells allowed on a used key after the same batch was
\* denied.
C6_Witness ==
    /\ hist # <<>>
    /\ BatchDecided(Last(hist))
    /\ Last(hist).call.n >= 2
    /\ Last(hist).retry
    /\ Last(hist).ret.kind = "allowed"
    /\ Last(hist).pre # None

NoHooks == [allow |-> 0, disallow |-> 0]

\* C7 (unsatisfiable batch): a test_n_all_and_update with t*(n-1) > tau
\* returns InsufficientCapacity at once; it never invokes measure_and_replace
\* nor a middleware hook, and leaves every key's stored state as it was.
C7_UnsatisfiableUntouched ==
    [][\A i \in Testers :
          (/\ call'[i].op = "test_n_all_and_update"
           /\ gcra.t * (call'[i].n - 1) > gcra.tau) =>
             /\ ret'[i].kind = "insufficient"
             /\ mr'[i] = 0
             /\ hooks'[i] = NoHooks
             /\ pc'[i] = "idle"
             /\ (calls'[i] # calls[i] => state' = state /\ commits' = commits)]_vars

\* An unsatisfiable batch returned on a key without state while another key
\* has state.
C7_Witness ==
    \E i \in Testers :
        /\ ret[i].kind = "insufficient"
        /\ state[call[i].key] = None
        /\ \E k \in Keys : state[k] # None

\* C9 (steady-rate admission): with max_burst = 1, a test_and_update whose
\* arrival time is at least t after that of every test allowed before it is
\* allowed; two tests at one arrival time t0 on a fresh key allow the first
\* and deny the second, whose wait_time_from(t0) is t.
C9_SteadyRate ==
    quota.max_burst = 1 =>
        \A j \in DOMAIN hist :
            /\ hist[j].paced => hist[j].ret.kind = "allowed"
            /\ hist[j].burst_pos = 1 => hist[j].ret.kind = "allowed"
            /\ hist[j].burst_pos = 2 =>
                  /\ hist[j].ret.kind = "denied"
                  /\ wait_time_from(hist[j].ret.nu, start + hist[j].call.t0) = gcra.t

\* A test repeated t after it was denied as the second of two tests at one
\* instant.
C9_Witness ==
    /\ quota.max_burst = 1
    /\ hist # <<>>
    /\ Last(hist).paced
    /\ Last(hist).retry
    /\ Last(hist).pre # None
    /\ Last(hist).call.t0 = track.run_t0 + gcra.t
    /\ Last(hist).ret.kind = "allowed"

\* The call c repeated with arrival instant p on the stored value st: is it
\* allowed?
AllowedAt(c, p, st) ==
    update_fn(gcra, start, Call(c.op, c.key, c.n, duration_since(p, start)), st).is_ok

\* C10 (a denial names the earliest conforming time): a denial at arrival
\* time t0 reports an earliest_possible() strictly later than start + t0;
\* on the state the denial leaves, the same test is allowed at arrival time
\* earliest_possible() and denied at every earlier arrival time.
C10_EarliestIsExact ==
    \A j \in DOMAIN hist :
        hist[j].ret.kind = "denied" =>
            LET e == hist[j]
                ep == earliest_possible(e.ret.nu)
            IN  /\ ep > start + e.call.t0
                /\ AllowedAt(e.call, ep, e.post)
                /\ \A p \in 0..(ep - 1) : ~AllowedAt(e.call, p, e.post)

\* A denied batch, repeated at its earliest_possible() and allowed.
C10_Witness ==
    /\ hist # <<>>
    /\ Last(hist).retry
    /\ Last(hist).call.n >= 2
    /\ Last(hist).ret.kind = "allowed"

(***************************************************************************)
(* One test_n_all_and_update on a fresh limiter, for quotas whose tau      *)
(* ranges up to the largest Nanos value.                                   *)
(***************************************************************************)
CapQuotas == {Quota(p, b) : p \in 1..MaxCapPeriod, b \in 1..MaxCapBurst}

CapInit == \E q \in CapQuotas : InitCommon(q, MaxStart)

CapNext ==
    /\ hist = <<>>
    /\ \E k \in SeqKeys, n \in 1..MaxCapN :
          seq_test_n_all_and_update(k, n, Reference_add(start, 0), FALSE)

CapSpec == CapInit /\ [][CapNext]_vars

\* C8 as claimed (the capacity check is exact): test_n_all_and_update
\* returns InsufficientCapacity if and only if n > max_burst, and the value
\* it carries, 1 + tau / t, is max_burst.
C8_CapacityCheckExact ==
    \A j \in DOMAIN hist :
        hist[j].call.op = "test_n_all_and_update" =>
            /\ hist[j].ret.kind = "insufficient" <=> hist[j].call.n > quota.max_burst
            /\ hist[j].ret.kind = "insufficient" => hist[j].ret.value = quota.max_burst

(***************************************************************************)
(* The negative outcome's helpers: one caller makes calls, at arrival      *)
(* times near the reference instant and near the largest instant, and      *)
(* then queries the denial its last call returned.                         *)
(***************************************************************************)
EdgeT0 == (0..MaxEdgeT0) \cup ((NanosMax - MaxEdgeT0)..NanosMax)
Froms == (0..MaxFrom) \cup ((NanosMax - MaxFrom)..NanosMax)

WaitInit == \E q \in SeqQuotas, s \in 0..MaxStart : InitCommon(q, s)

\* NotUntil::wait_time_from on the denial the last call returned.
NotUntil_wait_time_from(from) ==
    /\ ret[1].kind = "denied"
    /\ probe' = [op |-> "wait_time_from", nu |-> ret[1].nu, from |-> from,
                 jitter |-> 0,
                 earliest |-> earliest_possible(ret[1].nu),
                 wait |-> wait_time_from(ret[1].nu, from)]
    /\ UNCHANGED <<quota, gcra, start, state, pc, call, prev, decision, ret,
                   calls, mr, hooks, commits, hist, track, shadow, shadow_ret>>

\* NotUntil::wait_time_with_offset on the denial the last call returned.
NotUntil_wait_time_with_offset(from, jitter) ==
    /\ ret[1].kind = "denied"
    /\ probe' = [op |-> "wait_time_with_offset", nu |-> ret[1].nu, from |-> from,
                 jitter |-> jitter,
                 earliest |-> earliest_possible_with_offset(ret[1].nu, jitter),
                 wait |-> wait_time_with_offset(ret[1].nu, from, jitter)]
    /\ UNCHANGED <<quota, gcra, start, state, pc, call, prev, decision, ret,
                   calls, mr, hooks, commits, hist, track, shadow, shadow_ret>>

\* The helpers change nothing a call reads, so the calls stop at the first
\* query.
WaitNext ==
    \/ /\ probe = NoProbe
       /\ \E k \in SeqKeys, a \in EdgeT0 :
             seq_test_and_update(k, Reference_add(start, a), FALSE)
    \/ /\ probe = NoProbe
       /\ \E k \in SeqKeys, n \in 1..MaxN, a \in EdgeT0 :
             seq_test_n_all_and_update(k, n, Reference_add(start, a), FALSE)
    \/ \E from \in Froms : NotUntil_wait_time_from(from)
    \/ \E from \in Froms, j \in 0..MaxJitter :
          NotUntil_wait_time_with_offset(from, j)

WaitSpec == WaitInit /\ [][WaitNext]_vars

\* The instant start + d, at most the largest instant there is.
InstantAfter(s, d) == IF s + d > NanosMax THEN NanosMax ELSE s + d

\* C11 (wait_time_from is total and non-negative): for the denial a call
\* returned, with snapshot tat and decision instant start, and every instant
\* from, wait_time_from(from) is a duration (never negative); it is
\* (start + tat) - from when from is earlier than start + tat and exactly
\* zero when it is not.
C11_WaitTimeFrom ==
    /\ ret[1].kind = "denied" =>
          \A from \in Froms : wait_time_from(ret[1].nu, from) \in Nanos
    /\ probe.op = "wait_time_from" =>
          LET ep == InstantAfter(probe.nu.start, probe.nu.state.tat)
          IN  /\ probe.wait >= 0
              /\ probe.from < ep => probe.wait = ep - probe.from
              /\ probe.from >= ep => probe.wait = 0

\* A query from an instant after the decision instant that has to wait.
C11_Witness ==
    /\ probe.op = "wait_time_from"
    /\ probe.from > probe.nu.start
    /\ probe.wait > 0

\* C20 (jitter only delays): for the denial a call returned, every instant
\* from and every jitter j >= 0, earliest_possible_with_offset(j) is
\* start + tat + j; wait_time_with_offset(from, j) is that instant minus
\* from when from is earlier and zero otherwise; it is never less than
\* wait_time_from(from) and equals it when j = 0.
C20_JitterOnlyDelays ==
    probe.op = "wait_time_with_offset" =>
        LET ep == InstantAfter(probe.nu.start,
                               InstantAfter(probe.nu.state.tat, probe.jitter))
        IN  /\ probe.earliest = ep
            /\ probe.from < ep => probe.wait = ep - probe.from
            /\ probe.from >= ep => probe.wait = 0
            /\ probe.wait >= wait_time_from(probe.nu, probe.from)
            /\ probe.jitter = 0 => probe.wait = wait_time_from(probe.nu, probe.from)

\* A query that has to wait because of the jitter alone.
C20_Witness ==
    /\ probe.op = "wait_time_with_offset"
    /\ probe.jitter > 0
    /\ probe.wait > 0
    /\ wait_time_from(probe.nu, probe.from) = 0

\* The hooks a call returning outcome o invokes if each decision invokes one.
HooksOf(o) ==
    IF o.kind = "allowed" THEN [allow |-> 1, disallow |-> 0]
    ELSE [allow |-> 0, disallow |-> 1]

\* C12 as claimed (hooks run exactly once per decision): a call that reached
\* the store and returned, lost compare-and-commit races included, invoked
\* allow exactly once and disallow never if it returned an allowed outcome,
\* and disallow exactly once and allow never if it returned a denial.
C12_HooksExactlyOnce ==
    \A i \in Testers :
        (pc[i] = "idle" /\ ret[i].kind \in {"allowed", "denied"}) =>
            hooks[i] = HooksOf(ret[i])

\* C13 as claimed (quota round-trip): for every valid quota, the parameters
\* t = max(replenish_1_per, 1ns) and tau = t * (max_burst - 1) of Gcra::new,
\* converted back with replenish_1_per = t and max_burst = tau / t + 1, give
\* the original quota.
C13_QuotaRoundTrip ==
    /\ gcra = Gcra_new(quota)
    /\ from_gcra_parameters(gcra.t, gcra.tau) = quota

(***************************************************************************)
(* The concurrent testers on one key, each with weak fairness of the steps *)
(* of measure_and_replace: a tester inside a call is scheduled again.      *)
(* Whether it starts a call is left to it.                                 *)
(***************************************************************************)
FairNext ==
    \/ \E i \in Testers, k \in SeqKeys, a \in 0..MaxT0 :
          test_and_update(i, k, Reference_add(start, a))
    \/ \E i \in Testers, k \in SeqKeys, n \in 2..MaxN, a \in 0..MaxT0 :
          test_n_all_and_update(i, k, n, Reference_add(start, a))
    \/ \E i \in Testers : measure_and_replace_load(i)
    \/ \E i \in Testers : measure_and_replace_commit(i)
    \/ \E i \in Testers : measure_and_replace_retry(i)

\* A step of tester i inside measure_and_replace.
StoreStep(i) ==
    \/ measure_and_replace_load(i)
    \/ measure_and_replace_commit(i)
    \/ measure_and_replace_retry(i)

FairSpec ==
    Init /\ [][FairNext]_vars /\ \A i \in Testers : WF_vars(StoreStep(i))

\* C14 (every test call completes): with the testers each issuing finitely
\* many calls on one key, under weak fairness of each tester's steps, every
\* call that entered measure_and_replace eventually returns an allowed or a
\* denied outcome: the retry loop neither runs forever nor gets stuck.
C14_EveryCallReturns ==
    \A i \in Testers :
        (pc[i] # "idle") ~> (pc[i] = "idle" /\ ret[i].kind \in {"allowed", "denied"})

\* All calls have returned, one of them after losing a race.
C14_Witness ==
    /\ \A i \in Testers : pc[i] = "idle" /\ calls[i] = MaxCalls
    /\ \E i \in Testers :
          /\ hooks[i].allow + hooks[i].disallow >= 2
          /\ ret[i].kind \in {"allowed", "denied"}

\* C15 (an unseen key counts as fully replenished): on a key with no stored
\* state, test_and_update at any arrival time t0 is allowed and stores
\* t0 + t, and test_n_all_and_update with t*(n-1) <= tau is allowed and
\* stores t0 + n*t: the first test on a key is never denied.
C15_UnseenKeyReplenished ==
    \A j \in DOMAIN hist :
        LET e == hist[j]
        IN  (/\ e.pre = None
             /\ \/ e.call.op = "test_and_update"
                \/ gcra.t * (e.call.n - 1) <= gcra.tau) =>
               /\ e.ret.kind = "allowed"
               /\ e.post = e.call.t0 + e.call.n * gcra.t

\* A batch of several cells, arriving after the reference instant, as the
\* first test on the key.
C15_Witness ==
    /\ hist # <<>>
    /\ Last(hist).pre = None
    /\ Last(hist).call.op = "test_n_all_and_update"
    /\ Last(hist).call.n >= 2
    /\ Last(hist).call.t0 > 0
    /\ Last(hist).ret.kind = "allowed"

\* n successive calls of test_and_update on one key with one arrival time
\* t0, from the stored value st: whether all are allowed, and the stored
\* value after the last allowed one.
RECURSIVE test_and_update_times(_, _, _, _)
test_and_update_times(n, key, t0, st) ==
    IF n = 0
    THEN [all_ok |-> TRUE, state |-> st]
    ELSE LET d == test_and_update_fn(gcra, start, key, t0, st)
         IN  IF d.is_ok
             THEN test_and_update_times(n - 1, key, t0,
                                        measure_and_replace([k \in {key} |-> st], key, d)[key])
             ELSE [all_ok |-> FALSE, state |-> st]

\* C16 (a batch equals n single cells at one instant): for every stored
\* state or absence of it, arrival time t0 and n with t*(n-1) <= tau,
\* test_n_all_and_update(n) is allowed if and only if n successive calls of
\* test_and_update at t0 from the same stored state are all allowed, and
\* when allowed both leave the same stored tat.
C16_BatchEqualsCells ==
    \A j \in DOMAIN hist :
        LET e == hist[j]
            r == test_and_update_times(e.call.n, e.call.key, e.call.t0, e.pre)
        IN  (BatchDecided(e) /\ gcra.t * (e.call.n - 1) <= gcra.tau) =>
               /\ (e.ret.kind = "allowed") <=> r.all_ok
               /\ e.ret.kind = "allowed" => e.post = r.state

\* A batch denied on a used key where its first cell alone would be allowed.
C16_Witness ==
    /\ hist # <<>>
    /\ BatchDecided(Last(hist))
    /\ Last(hist).call.n >= 2
    /\ Last(hist).pre # None
    /\ Last(hist).ret.kind = "denied"
    /\ test_and_update_times(1, Last(hist).call.key, Last(hist).call.t0,
                             Last(hist).pre).all_ok

(***************************************************************************)
(* The concurrent testers on one key with arrival times at both ends of    *)
(* time, so that the stored tat reaches the largest Nanos value.           *)
(***************************************************************************)
SatNext ==
    \/ \E i \in Testers, k \in SeqKeys, a \in EdgeT0 :
          test_and_update(i, k, Reference_add(start, a))
    \/ \E i \in Testers, k \in SeqKeys, n \in 2..MaxN, a \in EdgeT0 :
          test_n_all_and_update(i, k, n, Reference_add(start, a))
    \/ \E i \in Testers : measure_and_replace_load(i)
    \/ \E i \in Testers : measure_and_replace_commit(i)
    \/ \E i \in Testers : measure_and_replace_retry(i)

SatInit == \E q \in SeqQuotas : InitCommon(q, MaxStart)

SatSpec == SatInit /\ [][SatNext]_vars

\* C17 (the stored tat is monotone): under every interleaving of
\* test_and_update and test_n_all_and_update calls on a key, with arrival
\* times in any order, the key's stored tat never decreases, and every
\* allowed test strictly increases it (for an unseen key: stores more than
\* its arrival time) unless it is already the largest Nanos value.
C17_TatMonotone ==
    [][\A k \in Keys :
          /\ state[k] # None => (state'[k] # None /\ state'[k] >= state[k])
          /\ commits'[k] # commits[k] =>
                LET old == unwrap_or(state[k], Last(commits'[k]).call.t0)
                IN  old = NanosMax \/ state'[k] > old]_vars

\* A test allowed on a tat that is already the largest Nanos value, and a
\* test allowed at an earlier arrival time than the test before it.
C17_Witness ==
    \E k \in Keys : \E j \in DOMAIN commits[k] :
        /\ commits[k][j].read = NanosMax
        /\ commits[k][j].wrote = NanosMax
        /\ \E h \in 2..Len(commits[k]) :
              commits[k][h].call.t0 < commits[k][h - 1].call.t0

\* The largest arrival time of the tests allowed on key k so far.
LatestAllowed(k) ==
    CHOOSE a \in {commits[k][j].call.t0 : j \in DOMAIN commits[k]} :
        \A j \in DOMAIN commits[k] : commits[k][j].call.t0 <= a

\* C18 (the bucket is never overfilled): a key's stored tat is at most
\* T + t + tau, where T is the largest arrival time of any test allowed so
\* far on the key; every allowed test at t0 commits a tat no greater than
\* t0 + t + tau.
C18_NeverOverfilled ==
    \A k \in Keys :
        /\ commits[k] # <<>> => state[k] <= LatestAllowed(k) + gcra.t + gcra.tau
        /\ \A j \in DOMAIN commits[k] :
              commits[k][j].wrote <= commits[k][j].call.t0 + gcra.t + gcra.tau

\* A batch allowed on a used key that fills the bucket to the brim.
C18_Witness ==
    \E k \in Keys : \E j \in DOMAIN commits[k] :
        /\ commits[k][j].call.n >= 2
        /\ commits[k][j].read # None
        /\ commits[k][j].wrote = commits[k][j].call.t0 + gcra.t + gcra.tau

\* Tester i is inside measure_and_replace with a closure result in hand.
InFlight(i) == pc[i] = "commit"

\* C19 (keys are independent): a step that changes the stored state of a
\* key is the commit of an allowed test on that key and changes no other
\* key; a test that returns without committing changes no key; two tests in
\* flight with the same arguments whose closures ran on the same stored
\* value of their key have the same decision, whatever the other keys
\* hold; and a test re-runs its closure only when the stored state of its
\* own key is no longer the value it read.
C19_KeysIndependent ==
    [][/\ \A k \in Keys :
             state'[k] # state[k] =>
                /\ \E i \in Testers :
                      /\ InFlight(i)
                      /\ call[i].key = k
                      /\ pc'[i] = "idle"
                      /\ ret'[i].kind = "allowed"
                /\ \A k2 \in Keys \ {k} : state'[k2] = state[k2]
       /\ \A i \in Testers :
             (ret'[i] # ret[i] /\ ret'[i].kind \in {"denied", "insufficient"}) =>
                state' = state
       /\ \A i \in Testers : \A j \in Testers :
             (/\ InFlight(i)
              /\ InFlight(j)
              /\ call[i] = call[j]
              /\ prev[i] = prev[j]) => decision[i] = decision[j]
       /\ \A i \in Testers :
             (InFlight(i) /\ hooks'[i] # hooks[i]) =>
                state[call[i].key] # prev[i]]_vars

\* A test in flight on one key whose compare-and-commit will succeed, the
\* other tester having committed a test on the other key and started a
\* second one there.
C19_Witness ==
    \E i \in Testers : \E j \in Testers \ {i} :
        /\ InFlight(i)
        /\ state[call[i].key] = prev[i]
        /\ call[j].key # call[i].key
        /\ calls[i] = 1
        /\ calls[j] = 2
        /\ Len(commits[call[j].key]) = 1
        /\ InFlight(j)

====
